---- MODULE Spec2Model ----
(***************************************************************************)
(* Compact_container_with_index_2: a pool of slots addressed by index,     *)
(* with an intrusive free list kept in the elements' tag word.  The most   *)
(* significant bit of the tag word is the type of the slot (0 USED,        *)
(* 1 FREE); the other bits are, for a free slot, the next free index.      *)
(*                                                                         *)
(* The model is the build with assertions enabled (CGAL_NO_ASSERTIONS not  *)
(* defined): a failed CGAL_assertion / CGAL_precondition aborts the        *)
(* program, which is recorded in the variable failure.                     *)
(***************************************************************************)
EXTENDS Integers, Sequences, FiniteSets, TLC

\* ---------------------------------------------------------------- bounds
\* width in bits of IndexType in the main specification
IndexBits == 4
\* width in bits of IndexType in the narrow-index specification
NarrowBits == 3
\* growth is not taken beyond this capacity
MaxCapacity == 4
\* the values of the template parameter k of the two growth policies
MaxFirstBlockSize == 3
\* the faces of a triangle mesh, the scores of a face, the calls of sort()
MaxFaces == 3
MaxScore == 2
MaxSorts == 2

\* the two growth policies of the source
Policies == {"Multiply_by_two_policy_for_cc_with_size",
             "Constant_size_policy_for_cc_with_size"}

\* sample elements of type T: a payload and the tag word the constructors of
\* T give to a new element (most significant bit clear)
Elements == { [val |-> "a", word |-> 0],
              [val |-> "b", word |-> 1],
              [val |-> "c", word |-> 2] }

\* the absence of an index in the history variable: below every index
NoIndex == 0 - 1

VARIABLES
  nbbits,            \* sizeof(size_type)*8, the width of IndexType
  Increment_policy,  \* the growth policy template argument
  first_block_size,  \* Increment_policy::first_block_size
  capacity_, size_, block_size, free_list, all_items,
  failure,           \* "none", or "assertion" once an assertion has failed
  alive,             \* history: indices constructed by insert/emplace and not erased
  objects,           \* history: the values constructed and not destroyed
  fill,              \* history: inserts since the container was last empty
  last,              \* history: the last operation, its argument and result, the growths
  iter,              \* an iterator: the container it points to and its index
  other,             \* a second container of the same type
  query,             \* history: the last iterator or query operation
  mesh,              \* tangential_relaxation: the mesh tm
  np,                \* tangential_relaxation: the vertex range and the named parameters
  vpm,               \* tangential_relaxation: the vertex point map
  nit,               \* tangential_relaxation: the iterations done
  new_locations,     \* tangential_relaxation: the moves still to perform
  pc,                \* tangential_relaxation: the position in the loop body
  touched,           \* history: the vertices whose point has been written
  performed,         \* history: the last move performed and the answers of check_normals
  tmesh,             \* Least_squares_plane_fit_sorting: the faces and their fitting scores
  m_face_range,      \* Least_squares_plane_fit_sorting: faces(m_face_graph)
  m_ordered,         \* Least_squares_plane_fit_sorting: the seed range
  m_scores,          \* Least_squares_plane_fit_sorting: the scores of the faces
  sorted             \* history: ordered() after each call of sort()

cc_vars == << nbbits, Increment_policy, first_block_size, capacity_, size_,
              block_size, free_list, all_items, failure, alive, objects,
              fill, last >>

pmp_vars == << mesh, np, vpm, nit, new_locations, pc, touched, performed >>

lsq_vars == << tmesh, m_face_range, m_ordered, m_scores, sorted >>

vars == << cc_vars, iter, other, query, pmp_vars, lsq_vars >>

params == << nbbits, Increment_policy, first_block_size >>

\* ------------------------------------------------------ size_type and tags
\* (std::numeric_limits<size_type>::max)()
max_size_type == 2^nbbits - 1

\* arithmetic of the unsigned type size_type
wrap(n) == n % (2^nbbits)

bottom == max_size_type \div 2

USED == 0
FREE == 1

nbbits_size_type_m1 == nbbits - 1

mask_type == max_size_type - (max_size_type \div 2)

\* v | (1 << b) for a word v of size_type
or_bit(v, b) == IF (v \div (2^b)) % 2 = 1 THEN v ELSE v + 2^b

static_type(e) == ((e.word \div mask_type) % 2)

static_get_val(e) == e.word % mask_type

static_set_val(e, v, t) ==
  [e EXCEPT !.word = IF t = FREE THEN or_bit(v, nbbits_size_type_m1) ELSE v]

static_set_type(e, t) == static_set_val(e, e.word % mask_type, t)

\* Index_for_cc_with_index: the default-constructed index and is_valid()
default_Index == max_size_type \div 2

is_valid(m_idx) == m_idx # (max_size_type \div 2)

\* ------------------------------------------------------------ the storage
nullptr == << >>

\* a slot of a newly allocated buffer, nothing constructed in it
raw_slot == [val |-> "indeterminate", word |-> 0]

\* the container as a value
Self == [capacity_ |-> capacity_, size_ |-> size_, block_size |-> block_size,
         free_list |-> free_list, all_items |-> all_items]

\* the assertion of operator[]
in_range(cc, i) == cc.all_items # nullptr /\ i < cc.capacity_

type(cc, i) == static_type(cc.all_items[i])

is_used(cc, i) == type(cc, i) = USED

get_val(cc, i) == static_get_val(cc.all_items[i])

set_val(cc, e, v, t) ==
  [cc EXCEPT !.all_items[e] = static_set_val(cc.all_items[e], v, t)]

\* variant: the link to the previous head is not stored
put_on_free_list_nolink(cc, x) ==
  [set_val(cc, x, bottom, FREE) EXCEPT !.free_list = x]

put_on_free_list(cc, x) ==
  [set_val(cc, x, cc.free_list, FREE) EXCEPT !.free_list = x]

init(cc) ==
  [capacity_ |-> 0, size_ |-> 0, block_size |-> first_block_size,
   free_list |-> bottom, all_items |-> nullptr]

\* variant: the block size is doubled
increase_size_doubled(cc) ==
  IF Increment_policy = "Multiply_by_two_policy_for_cc_with_size"
  THEN [cc EXCEPT !.block_size = wrap(2 * cc.block_size)]
  ELSE cc

increase_size(cc) ==
  IF Increment_policy = "Multiply_by_two_policy_for_cc_with_size"
  THEN [cc EXCEPT !.block_size = cc.capacity_]
  ELSE cc

\* variant: the new slots are marked free in ascending order
RECURSIVE mark_free_ascending(_, _, _)
mark_free_ascending(cc, index, oldcapacity) ==
  IF index > oldcapacity
  THEN put_on_free_list(mark_free_ascending(cc, index - 1, oldcapacity), index)
  ELSE cc

\* for (index = capacity_-1; index > oldcapacity; --index) put_on_free_list(index)
RECURSIVE mark_free(_, _, _)
mark_free(cc, index, oldcapacity) ==
  IF index > oldcapacity
  THEN mark_free(put_on_free_list(cc, index), index - 1, oldcapacity)
  ELSE cc

\* variant: the used elements are not moved into the new buffer
allocate_new_block_nomove(cc) ==
  LET oldcapacity == cc.capacity_
      newcapacity == wrap(cc.capacity_ + cc.block_size)
      all_items2 == [index \in 0 .. (newcapacity - 1) |-> raw_slot]
      moved == [cc EXCEPT !.capacity_ = newcapacity, !.all_items = all_items2]
      marked == put_on_free_list(mark_free(moved, newcapacity - 1, oldcapacity),
                                 oldcapacity)
  IN increase_size(marked)

\* variant: the first new slot is put on the free list before the others
allocate_new_block_first_slot_first(cc) ==
  LET oldcapacity == cc.capacity_
      newcapacity == wrap(cc.capacity_ + cc.block_size)
      all_items2 ==
        [index \in 0 .. (newcapacity - 1) |->
           IF index < oldcapacity
           THEN IF is_used(cc, index)
                THEN cc.all_items[index]
                ELSE static_set_val(raw_slot,
                                    static_get_val(cc.all_items[index]), FREE)
           ELSE raw_slot]
      moved == [cc EXCEPT !.capacity_ = newcapacity, !.all_items = all_items2]
      marked == mark_free(put_on_free_list(moved, oldcapacity),
                          newcapacity - 1, oldcapacity)
  IN increase_size(marked)

allocate_new_block(cc) ==
  LET oldcapacity == cc.capacity_
      newcapacity == wrap(cc.capacity_ + cc.block_size)
      all_items2 ==
        [index \in 0 .. (newcapacity - 1) |->
           IF index < oldcapacity
           THEN IF is_used(cc, index)
                THEN cc.all_items[index]
                ELSE static_set_val(raw_slot,
                                    static_get_val(cc.all_items[index]), FREE)
           ELSE raw_slot]
      moved == [cc EXCEPT !.capacity_ = newcapacity, !.all_items = all_items2]
      marked == put_on_free_list(mark_free(moved, newcapacity - 1, oldcapacity),
                                 oldcapacity)
  IN increase_size(marked)

\* variant: size_ is not incremented
insert_nocount(cc, t) ==
  LET grown == IF cc.free_list = bottom THEN allocate_new_block(cc) ELSE cc
      ret == grown.free_list
      e == static_set_type(grown.all_items[ret], USED)
  IN [grown EXCEPT !.free_list = static_get_val(e),
                   !.all_items[ret] = t]

\* variant: a block is allocated on every call
insert_always_grow(cc, t) ==
  LET grown == allocate_new_block(cc)
      ret == grown.free_list
      e == static_set_type(grown.all_items[ret], USED)
  IN [grown EXCEPT !.free_list = static_get_val(e),
                   !.all_items[ret] = t,
                   !.size_ = wrap(grown.size_ + 1)]

\* the container after insert(t) / emplace(args), t being the element built
insert(cc, t) ==
  LET grown == IF cc.free_list = bottom THEN allocate_new_block(cc) ELSE cc
      ret == grown.free_list
      e == static_set_type(grown.all_items[ret], USED)
  IN [grown EXCEPT !.free_list = static_get_val(e),
                   !.all_items[ret] = t,
                   !.size_ = wrap(grown.size_ + 1)]

\* variant: the slot is marked free but not pushed on the free list
erase_leak(cc, x) ==
  LET zeroed == [cc EXCEPT !.all_items[x] = [val |-> "zeroed", word |-> 0]]
      freed == set_val(zeroed, x, bottom, FREE)
  IN [freed EXCEPT !.size_ = wrap(freed.size_ - 1)]

\* variant: size_ is not decremented
erase_nodec(cc, x) ==
  LET zeroed == [cc EXCEPT !.all_items[x] = [val |-> "zeroed", word |-> 0]]
  IN put_on_free_list(zeroed, x)

\* the container after erase(x) when its precondition holds
erase(cc, x) ==
  LET zeroed == [cc EXCEPT !.all_items[x] = [val |-> "zeroed", word |-> 0]]
      freed == put_on_free_list(zeroed, x)
  IN [freed EXCEPT !.size_ = wrap(freed.size_ - 1)]

\* variant: block_size is not reset
clear_keep_block_size(cc) == [init(cc) EXCEPT !.block_size = cc.block_size]

\* variant: the free list is reset to slot 0 instead of bottom
clear_free_list_zero(cc) == [init(cc) EXCEPT !.free_list = 0]

clear(cc) == init(cc)

\* ------------------------------------------------------------- iteration
\* CC_iterator_with_index::increment, on the index of the iterator
\* variant: free slots are not skipped
increment_noskip(cc, m_index) == m_index + 1

RECURSIVE increment(_, _)
increment(cc, m_index) ==
  LET next == m_index + 1
  IN IF next < cc.capacity_ /\ ~is_used(cc, next)
     THEN increment(cc, next)
     ELSE next

end(cc) == cc.capacity_

empty(cc) == cc.size_ = 0

begin(cc) ==
  IF empty(cc) THEN end(cc)
  ELSE IF ~is_used(cc, 0) THEN increment(cc, 0) ELSE 0

\* the indices visited by for (it = begin(); it != end(); ++it)
RECURSIVE visit(_, _)
visit(cc, it) ==
  IF it = end(cc) THEN << >> ELSE << it >> \o visit(cc, increment(cc, it))

iteration(cc) == visit(cc, begin(cc))

\* --------------------------------------------------------------- actions
\* no iterator operation or query has been made
no_query == [op |-> "none"]

\* a step of the container leaves the iterator, the second container and the
\* mesh alone
ContainerStep ==
  /\ query' = no_query
  /\ UNCHANGED << iter, other, pmp_vars, lsq_vars >>

\* no value has been constructed
no_objects == [live |-> {}, leaked |-> FALSE, destroyed_free |-> FALSE]

\* the slots that is_used selects
used_slots(cc) == { i \in 0 .. (cc.capacity_ - 1) : is_used(cc, i) }

\* allocate_new_block: each used slot is constructed in the new storage from
\* the old one, which is destroyed; then the old storage is deallocated
objects_after_growth(o, cc) ==
  [live |-> o.live \cap used_slots(cc),
   leaked |-> o.leaked \/ o.live \ used_slots(cc) # {},
   destroyed_free |-> o.destroyed_free \/ used_slots(cc) \ o.live # {}]

\* insert / emplace: new (&e) value_type(t) at the slot returned
objects_after_insert(o, cc) ==
  LET grew == cc.free_list = bottom
      grown == IF grew THEN objects_after_growth(o, cc) ELSE o
      ret == (IF grew THEN allocate_new_block(cc) ELSE cc).free_list
  IN [grown EXCEPT !.live = @ \cup {ret},
                   !.leaked = @ \/ ret \in grown.live]

\* erase: destroy(alloc, &e)
objects_after_erase(o, cc, x) ==
  [o EXCEPT !.live = @ \ {x}, !.destroyed_free = @ \/ x \notin o.live]

\* variant: every slot is destroyed
objects_after_clear_all(o, cc) ==
  [live |-> {},
   leaked |-> o.leaked,
   destroyed_free |-> o.destroyed_free \/ (0 .. (cc.capacity_ - 1)) \ o.live # {}]

\* clear: if (is_used(i)) alloc.destroy(&operator[](i)), then deallocate
objects_after_clear(o, cc) ==
  [live |-> {},
   leaked |-> o.leaked \/ o.live \ used_slots(cc) # {},
   destroyed_free |-> o.destroyed_free \/ used_slots(cc) \ o.live # {}]

Store(cc) ==
  /\ capacity_' = cc.capacity_
  /\ size_' = cc.size_
  /\ block_size' = cc.block_size
  /\ free_list' = cc.free_list
  /\ all_items' = cc.all_items

\* the call is made on a running program, and a growth stays within the bound
CanInsert ==
  /\ failure = "none"
  /\ free_list = bottom => capacity_ + block_size <= MaxCapacity

DoInsert(op, t) ==
  LET grew == free_list = bottom
      grown == IF grew THEN allocate_new_block(Self) ELSE Self
      ret == grown.free_list
  IN IF in_range(grown, ret)
     THEN /\ Store(insert(Self, t))
          /\ failure' = failure
          /\ alive' = alive \cup {ret}
          /\ objects' = objects_after_insert(objects, Self)
          /\ fill' = IF fill.n >= 0 THEN [fill EXCEPT !.n = fill.n + 1] ELSE fill
          /\ last' = [op |-> op, x |-> NoIndex, ret |-> ret, t |-> t,
                      grew |-> grew, oldcapacity |-> capacity_,
                      after_erase |-> IF last.op = "erase" /\ failure = "none"
                                      THEN last.x ELSE NoIndex,
                      grown_from |-> IF grew THEN capacity_
                                     ELSE IF last.since_growth # NoIndex
                                     THEN last.grown_from ELSE NoIndex,
                      since_growth |-> IF grew THEN 0
                                       ELSE IF last.since_growth # NoIndex
                                       THEN last.since_growth + 1 ELSE NoIndex,
                      growths |-> IF grew THEN last.growths + 1 ELSE last.growths]
     ELSE \* the assertion of operator[](free_list) fails
          /\ Store(grown)
          /\ failure' = "assertion"
          /\ objects' = IF grew THEN objects_after_growth(objects, Self)
                        ELSE objects
          /\ UNCHANGED << alive, fill >>
          /\ last' = [op |-> op, x |-> NoIndex, ret |-> NoIndex, t |-> t,
                      grew |-> grew, oldcapacity |-> capacity_,
              after_erase |-> NoIndex,
              grown_from |-> NoIndex, since_growth |-> NoIndex,
              growths |-> IF grew THEN last.growths + 1 ELSE last.growths]

Insert(t) ==
  /\ CanInsert
  /\ DoInsert("insert", t)
  /\ UNCHANGED params
  /\ ContainerStep

Emplace(args) ==
  /\ CanInsert
  /\ DoInsert("emplace", args)
  /\ UNCHANGED params
  /\ ContainerStep

\* variant: erase without its precondition
Erase_unchecked(x) ==
  /\ failure = "none"
  /\ IF in_range(Self, x)
     THEN /\ Store(erase(Self, x))
          /\ failure' = failure
          /\ alive' = alive \ {x}
          /\ objects' = objects_after_erase(objects, Self, x)
          /\ fill' = IF wrap(size_ - 1) = 0
                     THEN [from |-> "erased", n |-> 0]
                     ELSE [from |-> fill.from, n |-> -1]
     ELSE /\ failure' = "assertion"
          /\ UNCHANGED << capacity_, size_, block_size, free_list, all_items,
                          alive, objects, fill >>
  /\ last' = [op |-> "erase", x |-> x, ret |-> NoIndex, t |-> raw_slot,
              grew |-> FALSE, oldcapacity |-> capacity_,
              after_erase |-> NoIndex,
              grown_from |-> NoIndex, since_growth |-> NoIndex,
              growths |-> last.growths]
  /\ UNCHANGED params
  /\ ContainerStep

Erase(x) ==
  /\ failure = "none"
  /\ IF in_range(Self, x) /\ type(Self, x) = USED
     THEN /\ Store(erase(Self, x))
          /\ failure' = failure
          /\ alive' = alive \ {x}
          /\ objects' = objects_after_erase(objects, Self, x)
          /\ fill' = IF wrap(size_ - 1) = 0
                     THEN [from |-> "erased", n |-> 0]
                     ELSE [from |-> fill.from, n |-> -1]
     ELSE \* CGAL_precondition(type(x) == USED) or the assertion of operator[]
          /\ failure' = "assertion"
          /\ UNCHANGED << capacity_, size_, block_size, free_list, all_items,
                          alive, objects, fill >>
  /\ last' = [op |-> "erase", x |-> x, ret |-> NoIndex, t |-> raw_slot,
              grew |-> FALSE, oldcapacity |-> capacity_,
              after_erase |-> NoIndex,
              grown_from |-> NoIndex, since_growth |-> NoIndex,
              growths |-> last.growths]
  /\ UNCHANGED params
  /\ ContainerStep

Clear ==
  /\ failure = "none"
  /\ Store(clear(Self))
  /\ alive' = {}
  /\ objects' = objects_after_clear(objects, Self)
  /\ fill' = [from |-> "cleared", n |-> 0]
  /\ last' = [op |-> "clear", x |-> NoIndex, ret |-> NoIndex, t |-> raw_slot,
              grew |-> FALSE, oldcapacity |-> capacity_,
              after_erase |-> NoIndex,
              grown_from |-> NoIndex, since_growth |-> NoIndex,
              growths |-> 0]
  /\ UNCHANGED << failure, params >>
  /\ ContainerStep

\* the state after the default constructor, for an IndexType of the given width
Construct(bits) ==
  /\ nbbits = bits
  /\ Increment_policy \in Policies
  /\ first_block_size \in 1 .. MaxFirstBlockSize
  /\ capacity_ = 0
  /\ size_ = 0
  /\ block_size = first_block_size
  /\ free_list = (2^bits - 1) \div 2
  /\ all_items = nullptr
  /\ failure = "none"
  /\ alive = {}
  /\ objects = no_objects
  /\ fill = [from |-> "fresh", n |-> 0]
  /\ last = [op |-> "init", x |-> NoIndex, ret |-> NoIndex, t |-> raw_slot,
             grew |-> FALSE, oldcapacity |-> capacity_,
              after_erase |-> NoIndex,
              grown_from |-> NoIndex, since_growth |-> NoIndex,
              growths |-> 0]

\* the default-constructed (singular) iterator
singular == [m_ptr_to_cc |-> "nullptr", m_index |-> 0]

\* no second container has been built, no iterator obtained
NoUse ==
  /\ iter = singular
  /\ other = [capacity_ |-> 0, size_ |-> 0, block_size |-> first_block_size,
              free_list |-> (2^nbbits - 1) \div 2, all_items |-> nullptr]
  /\ query = no_query

\* no move has been performed
no_move == [first |-> "none"]

\* tangential_relaxation is not called
NoMesh ==
  /\ mesh = [edges |-> << >>]
  /\ np = [vertices |-> {}]
  /\ vpm = << >>
  /\ nit = 0
  /\ new_locations = << >>
  /\ pc = "not called"
  /\ touched = {}
  /\ performed = no_move

\* no Least_squares_plane_fit_sorting object is constructed
NoFaces ==
  /\ tmesh = [faces |-> 0]
  /\ m_face_range = << >>
  /\ m_ordered = << >>
  /\ m_scores = << >>
  /\ sorted = << >>

Init == Construct(IndexBits) /\ NoUse /\ NoMesh /\ NoFaces

InitNarrow == Construct(NarrowBits) /\ NoUse /\ NoMesh /\ NoFaces

\* ------------------------------------------- iterators, owns, reserve, copy
\* the element inserted where the values play no role
OneElement == { [val |-> "a", word |-> 0] }

\* the container an iterator points to
cc_of(cit) == IF cit.m_ptr_to_cc = "this" THEN Self ELSE other

\* variant: the free slots are not skipped
decrement_noskip(cc, m_index) ==
  [m_index |-> wrap(m_index - 1), asserted |-> ~in_range(cc, wrap(m_index - 1))]

\* the loop of CC_iterator_with_index::decrement: do --m_index while the slot
\* is not used; is_used goes through operator[] and its assertion
RECURSIVE decrement(_, _)
decrement(cc, m_index) ==
  LET prev == wrap(m_index - 1)
  IN IF ~in_range(cc, prev)
     THEN [m_index |-> prev, asserted |-> TRUE]
     ELSE IF ~is_used(cc, prev)
          THEN decrement(cc, prev)
          ELSE [m_index |-> prev, asserted |-> FALSE]

\* &*cit: the storage the element lies in and its offset
address(cit) == [storage |-> cit.m_ptr_to_cc, offset |-> cit.m_index]

\* c >= all_items && c < all_items + capacity_, for the storage of *this
in_storage(c) == c.storage = "this" /\ c.offset < capacity_

\* variant: end() is not accepted
owns_without_end(cit) ==
  IF ~in_range(cc_of(cit), cit.m_index) THEN "assertion"
  ELSE IF in_storage(address(cit))
       THEN IF type(Self, cit.m_index) = USED THEN "true" ELSE "false"
       ELSE "false"

\* owns(cit) of *this: "true", "false", or "assertion" when operator* of cit
\* fails the assertion of operator[]
owns(cit) ==
  IF cit = [m_ptr_to_cc |-> "this", m_index |-> end(Self)] THEN "true"
  ELSE IF ~in_range(cc_of(cit), cit.m_index) THEN "assertion"
  ELSE IF in_storage(address(cit))
       THEN IF type(Self, cit.m_index) = USED THEN "true" ELSE "false"
       ELSE "false"

\* the copy constructor: init(), block_size = c.block_size, then the elements
\* of c are inserted in the order of iteration
RECURSIVE copy_range(_, _, _)
copy_range(d, c, indices) ==
  IF indices = << >> THEN d
  ELSE copy_range(insert(d, c.all_items[Head(indices)]), c, Tail(indices))

\* variant: the elements of c are inserted from the last to the first
copy_construct_reversed(c) ==
  LET forward == iteration(c)
      backward == [i \in 1 .. Len(forward) |-> forward[Len(forward) + 1 - i]]
  IN copy_range([init(c) EXCEPT !.block_size = c.block_size], c, backward)

\* variant: the members and the slots are copied as they are
copy_construct_slotwise(c) == c

copy_construct(c) ==
  copy_range([init(c) EXCEPT !.block_size = c.block_size], c, iteration(c))

\* an operation on the iterator: the iterator it was applied to and the outcome
IterStep(op, result) ==
  /\ query' = [op |-> op,
               before |-> IF op \in {"increment", "decrement", "owns"}
                          THEN iter ELSE singular,
               result |-> result]
  /\ failure' = IF result \in {"ok", "true", "false"} THEN failure ELSE "assertion"
  /\ UNCHANGED << params, capacity_, size_, block_size, free_list, all_items,
                  alive, objects, fill, last, other, pmp_vars, lsq_vars >>

Begin ==
  /\ failure = "none"
  /\ iter' = [m_ptr_to_cc |-> "this", m_index |-> begin(Self)]
  /\ IterStep("begin", "ok")

End ==
  /\ failure = "none"
  /\ iter' = [m_ptr_to_cc |-> "this", m_index |-> end(Self)]
  /\ IterStep("end", "ok")

IndexTo(cc_name, value) ==
  /\ failure = "none"
  /\ iter' = [m_ptr_to_cc |-> cc_name, m_index |-> value]
  /\ IterStep("index_to", "ok")

Increment ==
  /\ failure = "none"
  /\ IF iter.m_ptr_to_cc = "nullptr"
     THEN /\ iter' = iter
          /\ IterStep("increment", "Incrementing a singular iterator or an empty container iterator ?")
     ELSE IF ~(iter.m_index < cc_of(iter).capacity_)
     THEN /\ iter' = iter
          /\ IterStep("increment", "Incrementing end() ?")
     ELSE /\ iter' = [iter EXCEPT !.m_index = increment(cc_of(iter), iter.m_index)]
          /\ IterStep("increment", "ok")

Decrement ==
  /\ failure = "none"
  /\ IF iter.m_ptr_to_cc = "nullptr"
     THEN /\ iter' = iter
          /\ IterStep("decrement", "Decrementing a singular iterator or an empty container iterator ?")
     ELSE IF ~(iter.m_index > 0)
     THEN /\ iter' = iter
          /\ IterStep("decrement", "Decrementing begin() ?")
     ELSE LET moved == decrement(cc_of(iter), iter.m_index)
          IN /\ iter' = [iter EXCEPT !.m_index = moved.m_index]
             /\ IterStep("decrement", IF moved.asserted THEN "operator[]" ELSE "ok")

Owns ==
  /\ failure = "none"
  /\ iter.m_ptr_to_cc # "nullptr"
  /\ iter' = iter
  /\ IterStep("owns", owns(iter))

Reserve(n) ==
  /\ failure = "none"
  /\ query' = [op |-> "reserve", n |-> n, capacity_before |-> capacity_]
  /\ UNCHANGED << cc_vars, iter, other, pmp_vars, lsq_vars >>

\* the iterator goes out of scope
Release ==
  /\ failure = "none"
  /\ iter # singular
  /\ iter' = singular
  /\ query' = no_query
  /\ UNCHANGED << cc_vars, other, pmp_vars, lsq_vars >>

\* no second container and no iterator is held: the container steps of the
\* specifications below are taken in such states
NoOther == other = init(other) /\ iter = singular

\* Self d(c) for the container c = *this
CopyConstruct ==
  /\ failure = "none"
  /\ NoOther
  /\ other' = copy_construct(Self)
  /\ query' = [op |-> "copy constructor", source |-> Self]
  /\ UNCHANGED << cc_vars, iter, pmp_vars, lsq_vars >>

\* d = c when from = "this", d = d when from = "other"
CopyAssign(from) ==
  /\ failure = "none"
  /\ other' = IF from = "this" THEN copy_construct(Self) ELSE other
  /\ query' = [op |-> "operator=", source |-> IF from = "this" THEN Self ELSE other]
  /\ UNCHANGED << cc_vars, iter, pmp_vars, lsq_vars >>

\* the destructor of the second container
DestroyOther ==
  /\ failure = "none"
  /\ other # init(other)
  /\ other' = clear(other)
  /\ query' = no_query
  /\ UNCHANGED << cc_vars, iter, pmp_vars, lsq_vars >>

\* ------------------------------------------------- tangential_relaxation
MaxIterations == 1

MaxInversions == 6

\* the unit of the coordinates: a full move is Unit, so that the fractions
\* 1, 0.5, ..., 0.015625 of it are the integers 64, 32, ..., 1
Unit == 64

\* the vertices of the mesh, in the order of vertices(tm)
Order == << "u", "v", "w" >>

Vertices == { Order[i] : i \in 1 .. Len(Order) }

Pairs == { e \in SUBSET Vertices : Cardinality(e) = 2 }

\* the meshes: the edges present, each a border edge or an interior edge
Meshes ==
  { [edges |-> f] :
      f \in UNION { [D -> {"interior", "border"}] : D \in SUBSET Pairs } }

\* the vertex range and the named parameters of a call on mesh tm
NamedParameters(tm) ==
  [vertices : {Vertices, Vertices \ {Order[1]}},
   vertex_is_constrained : { c \in SUBSET Vertices : Cardinality(c) <= 1 },
   edge_is_constrained : { c \in SUBSET DOMAIN tm.edges : Cardinality(c) <= 1 },
   relax_constraints : BOOLEAN,
   number_of_iterations : 0 .. MaxIterations]

\* halfedges_around_target(v, tm), one halfedge for each incident edge
halfedges_around_target(v) == { e \in DOMAIN mesh.edges : v \in e }

is_border_edge(e) == mesh.edges[e] = "border"

border_halfedges(v) ==
  { e \in halfedges_around_target(v) :
      is_border_edge(e) \/ e \in np.edge_is_constrained }

\* variant: the vertex constraint map is not consulted
considered_without_vcm == 
  { v \in np.vertices : halfedges_around_target(v) # {} }

\* the vertices of the range that pass the first test of the loop
considered ==
  { v \in np.vertices :
      ~(v \in np.vertex_is_constrained \/ halfedges_around_target(v) = {}) }

\* the vertices that get a barycenter whatever the geometry
smoothed == { v \in considered : border_halfedges(v) = {} }

\* the vertices that get one when the test on the cosine succeeds
corners ==
  { v \in considered :
      /\ border_halfedges(v) # {}
      /\ np.relax_constraints
      /\ Cardinality(border_halfedges(v)) = 2 }

\* new_locations for the vertices of S, in the order of the range; the new
\* location is one Unit away from the current one
locations(S) ==
  LET chosen == SelectSeq(Order, LAMBDA v : v \in S)
  IN [i \in 1 .. Len(chosen) |->
        [first |-> chosen[i], second |-> vpm[chosen[i]] + Unit]]

\* frac after the loop while (frac > 0.03 && !check_normals(v)) frac = 0.5*frac,
\* when check_normals fails for the first "inverted" calls
RECURSIVE shortened(_, _)
shortened(frac, inverted) ==
  IF 100 * frac > 3 * Unit /\ inverted > 0
  THEN shortened(frac \div 2, inverted - 1)
  ELSE frac

\* variant: the move is never cancelled
final_position_not_cancelled(initial_pos, move, inverted) ==
  initial_pos + (shortened(Unit, inverted) * move) \div Unit

\* the position written last by the body of the loop "perform moves"
final_position(initial_pos, move, inverted) ==
  LET frac == shortened(Unit, inverted)
  IN IF 100 * frac <= 2 * Unit
     THEN initial_pos
     ELSE initial_pos + (frac * move) \div Unit

RelaxStep == UNCHANGED << cc_vars, iter, other, query, mesh, np, lsq_vars >>

\* the two loops over the vertices that fill barycenters and new_locations
ComputeMoves ==
  /\ pc = "compute"
  /\ nit < np.number_of_iterations
  /\ \E sharp \in SUBSET corners :
       new_locations' = locations(smoothed \cup sharp)
  /\ pc' = "move"
  /\ UNCHANGED << vpm, nit, touched, performed >>
  /\ RelaxStep

\* one turn of the loop "perform moves"
PerformMove ==
  /\ pc = "move"
  /\ new_locations # << >>
  /\ \E inverted \in 0 .. MaxInversions :
       LET vp == Head(new_locations)
           initial_pos == vpm[vp.first]
           move == vp.second - initial_pos
       IN /\ vpm' = [vpm EXCEPT ![vp.first] =
                                final_position(initial_pos, move, inverted)]
          /\ performed' = [first |-> vp.first, initial_pos |-> initial_pos,
                           move |-> move, inverted |-> inverted]
  /\ touched' = touched \cup { Head(new_locations).first }
  /\ new_locations' = Tail(new_locations)
  /\ UNCHANGED << nit, pc >>
  /\ RelaxStep

\* the end of the body of for (nit = 0; nit < nb_iterations; ++nit)
EndIteration ==
  /\ pc = "move"
  /\ new_locations = << >>
  /\ nit' = nit + 1
  /\ pc' = "compute"
  /\ UNCHANGED << vpm, new_locations, touched, performed >>
  /\ RelaxStep

Return ==
  /\ pc = "compute"
  /\ ~(nit < np.number_of_iterations)
  /\ pc' = "done"
  /\ UNCHANGED << vpm, nit, new_locations, touched, performed >>
  /\ RelaxStep

\* the entry of tangential_relaxation(vertices, tm, np)
InitRelax ==
  /\ Construct(IndexBits)
  /\ Increment_policy = "Constant_size_policy_for_cc_with_size"
  /\ first_block_size = 1
  /\ NoUse
  /\ mesh \in Meshes
  /\ np \in NamedParameters(mesh)
  /\ vpm = [v \in Vertices |-> 0]
  /\ nit = 0
  /\ new_locations = << >>
  /\ pc = "compute"
  /\ touched = {}
  /\ performed = no_move
  /\ NoFaces

NextRelax == ComputeMoves \/ PerformMove \/ EndIteration \/ Return

SpecRelax == InitRelax /\ [][NextRelax]_vars

\* ------------------------------------- Least_squares_plane_fit_sorting
\* a vector of n items, indexed from 0 as in the source
positions(n) == 0 .. (n - 1)

\* faces(tmesh): the face descriptors in the order of the range
faces(tm) == [i \in positions(tm.faces) |-> i + 1]

\* the meshes: their number of faces and, for each face of the range, the
\* score create_plane_from_faces gives to the face and its neighbors
TriangleMeshes ==
  UNION { { [faces |-> n, score |-> s] : s \in [positions(n) -> 0 .. MaxScore] } :
          n \in 1 .. MaxFaces }

\* compute_scores(): the score of the i-th face of the range goes to m_scores[i]
compute_scores(tm) == [idx \in positions(tm.faces) |-> tm.score[idx]]

\* Compare_scores::operator()(i, j): the score comparator, a strict weak
\* order of the indices by their scores (the larger score first)
Compare_scores(scores, i, j) == scores[i] > scores[j]

\* the permutations of 0 .. n-1
permutations(n) ==
  { p \in [positions(n) -> positions(n)] :
      \A i, j \in positions(n) : p[i] = p[j] => i = j }

\* std::iota followed by std::sort(order.begin(), order.end(), cmp): any
\* arrangement of 0 .. n-1 in which no index is before one that cmp puts
\* before it (std::sort is not stable)
sort_orders(scores) ==
  LET n == Cardinality(DOMAIN scores)
  IN { order \in permutations(n) :
         \A i, j \in positions(n) :
           i < j => ~Compare_scores(scores, order[j], order[i]) }

\* tmp[i] = m_ordered[order[i]]
reorder(ordered, order) == [i \in DOMAIN order |-> ordered[order[i]]]

\* the constructor: m_ordered is the face range, m_scores has its size
InitSort ==
  /\ Construct(IndexBits)
  /\ Increment_policy = "Constant_size_policy_for_cc_with_size"
  /\ first_block_size = 1
  /\ NoUse
  /\ NoMesh
  /\ tmesh \in TriangleMeshes
  /\ m_face_range = faces(tmesh)
  /\ m_ordered = m_face_range
  /\ m_scores = [i \in positions(tmesh.faces) |-> 0]
  /\ sorted = << >>

\* sort(), on an unchanged mesh and neighbor query
Sort ==
  /\ Len(sorted) < MaxSorts
  /\ m_scores' = compute_scores(tmesh)
  /\ \E order \in sort_orders(m_scores') :
       m_ordered' = reorder(m_ordered, order)
  /\ sorted' = Append(sorted, m_ordered')
  /\ UNCHANGED << cc_vars, iter, other, query, pmp_vars, tmesh, m_face_range >>

NextSort == Sort

SpecSort == InitSort /\ [][NextSort]_vars

\* uses of one container through its iterators
NextIter ==
  \/ \E t \in OneElement : NoOther /\ Insert(t)
  \/ \E x \in 0 .. MaxCapacity : NoOther /\ Erase(x)
  \/ Begin
  \/ End
  \/ \E value \in 0 .. MaxCapacity : IndexTo("this", value)
  \/ Increment
  \/ Decrement
  \/ Release

SpecIter == Init /\ [][NextIter]_vars

\* one container and an iterator that is kept while the container changes
NextHeld ==
  \/ \E t \in OneElement : Insert(t)
  \/ \E x \in 0 .. MaxCapacity : Erase(x)
  \/ Begin
  \/ End
  \/ \E value \in 0 .. MaxCapacity : IndexTo("this", value)

SpecHeld == Init /\ [][NextHeld]_vars

\* elements of type T as a caller can hand them to insert: a new element, and
\* a copy of a free slot, whose tag word has the most significant bit set
TaggedElements ==
  OneElement \cup { [val |-> "f", word |-> or_bit(bottom, nbbits_size_type_m1)] }

\* one container and elements with any tag word
NextTagged ==
  \/ \E t \in TaggedElements : Insert(t)
  \/ \E args \in TaggedElements : Emplace(args)
  \/ \E x \in 0 .. MaxCapacity : Erase(x)
  \/ Clear

SpecTagged == Init /\ [][NextTagged]_vars

\* the members of a container object whose constructor has not written them:
\* any values; three samples are the values init() would give, zero-filled
\* memory, and left-over values of another object
Uninitialized ==
  { init(Self),
    [capacity_ |-> 0, size_ |-> 0, block_size |-> 0, free_list |-> 0,
     all_items |-> nullptr],
    [capacity_ |-> 1, size_ |-> 1, block_size |-> 1, free_list |-> 0,
     all_items |-> nullptr] }

\* c.swap(d) seen from c, d being under construction or a temporary
MovedFrom(op, members) ==
  /\ Store(members)
  /\ alive' = {}
  /\ objects' = no_objects
  /\ fill' = [from |-> "moved", n |-> 0 - 1]
  /\ last' = [op |-> op, x |-> NoIndex, ret |-> NoIndex, t |-> raw_slot,
              grew |-> FALSE, oldcapacity |-> capacity_,
              after_erase |-> NoIndex,
              grown_from |-> NoIndex, since_growth |-> NoIndex,
              growths |-> 0]
  /\ query' = [op |-> op, source |-> Self]
  /\ UNCHANGED << params, failure, iter, pmp_vars, lsq_vars >>

\* Self d(std::move(c)) for the container c = *this: the members of d are
\* swapped with those of c before anything has written them
MoveConstruct ==
  /\ failure = "none"
  /\ NoOther
  /\ other' = Self
  /\ \E members \in Uninitialized : MovedFrom("move constructor", members)

\* d = std::move(c): Self tmp(std::move(c)); tmp.swap(d); the former members
\* of d are destroyed with tmp
MoveAssign ==
  /\ failure = "none"
  /\ other' = Self
  /\ \E members \in Uninitialized : MovedFrom("move assignment", members)

\* the container has not been moved from
NotMoved == last.op \notin {"move constructor", "move assignment"}

\* a container, a second one built or assigned from it by a move
NextMove ==
  \/ \E t \in OneElement : NotMoved /\ NoOther /\ Insert(t)
  \/ \E x \in 0 .. MaxCapacity : NotMoved /\ NoOther /\ Erase(x)
  \/ NotMoved /\ CopyConstruct
  \/ NotMoved /\ MoveConstruct
  \/ NotMoved /\ MoveAssign
  \/ DestroyOther

SpecMove == Init /\ [][NextMove]_vars

\* what new (&e) value_type(t) reads through a reference t into the storage
\* that allocate_new_block has moved from, destroyed and deallocated: the
\* former value when the memory is still intact, a moved-from value, or the
\* content of unconstructed memory
Dangling(t) == { t, [t EXCEPT !.val = "moved-from"], raw_slot }

\* insert(c[i]) for a used slot i of the container c = *this
InsertElementOf(i) ==
  /\ CanInsert
  /\ in_range(Self, i)
  /\ is_used(Self, i)
  /\ LET t == all_items[i]
         grew == free_list = bottom
         grown == IF grew THEN allocate_new_block(Self) ELSE Self
         ret == grown.free_list
     IN /\ in_range(grown, ret)
        /\ \E read \in (IF grew THEN Dangling(t) ELSE {t}) :
             Store(insert(Self, read))
        /\ failure' = failure
        /\ alive' = alive \cup {ret}
        /\ objects' = objects_after_insert(objects, Self)
        /\ fill' = IF fill.n >= 0 THEN [fill EXCEPT !.n = fill.n + 1] ELSE fill
        /\ last' = [op |-> "insert", x |-> i, ret |-> ret, t |-> t,
                    grew |-> grew, oldcapacity |-> capacity_,
                    after_erase |-> NoIndex,
                    grown_from |-> NoIndex, since_growth |-> NoIndex,
                    growths |-> IF grew THEN last.growths + 1 ELSE last.growths]
  /\ UNCHANGED params
  /\ ContainerStep

\* one container and inserts of its own elements
NextAlias ==
  \/ \E t \in OneElement : Insert(t)
  \/ \E x \in 0 .. MaxCapacity : Erase(x)
  \/ \E i \in 0 .. MaxCapacity : InsertElementOf(i)

SpecAlias == Init /\ [][NextAlias]_vars

\* a container, a copy of it, iterators of both handed to owns(); reserve()
NextOwns ==
  \/ \E t \in OneElement : NoOther /\ Insert(t)
  \/ \E x \in 0 .. MaxCapacity : NoOther /\ Erase(x)
  \/ End
  \/ \E cc_name \in {"this", "other"} : \E value \in 0 .. MaxCapacity :
       IndexTo(cc_name, value)
  \/ Owns
  \/ \E n \in 0 .. MaxCapacity : NoOther /\ Reserve(n)
  \/ CopyConstruct
  \/ iter = singular /\ DestroyOther
  \/ Release

SpecOwns == Init /\ [][NextOwns]_vars

NextCopy ==
  \/ \E t \in Elements : NoOther /\ Insert(t)
  \/ \E x \in 0 .. MaxCapacity : NoOther /\ Erase(x)
  \/ CopyConstruct
  \/ \E from \in {"this", "other"} : CopyAssign(from)
  \/ DestroyOther

SpecCopy == Init /\ [][NextCopy]_vars

Next ==
  \/ \E t \in Elements : Insert(t)
  \/ \E args \in Elements : Emplace(args)
  \/ \E x \in 0 .. MaxCapacity : Erase(x)
  \/ Clear

Spec == Init /\ [][Next]_vars

SpecNarrow == InitNarrow /\ [][Next]_vars

TypeOK ==
  /\ capacity_ \in 0 .. MaxCapacity
  /\ size_ \in 0 .. max_size_type
  /\ failure \in {"none", "assertion"}

\* ---------------------------------------------------------------- claims
Ins == {"insert", "emplace"}

\* the state of a newly constructed container
fresh == [capacity_ |-> 0, size_ |-> 0, block_size |-> first_block_size,
          free_list |-> bottom, all_items |-> nullptr]

\* the slots reached from x by following the next links up to bottom
RECURSIVE free_chain(_, _, _)
free_chain(cc, x, seen) ==
  IF x = bottom \/ x \in seen \/ ~in_range(cc, x)
  THEN seen
  ELSE free_chain(cc, get_val(cc, x), seen \cup {x})

slots(cc) == 0 .. (cc.capacity_ - 1)

\* C1: after every sequence of insert, emplace and erase calls, size() is the
\* number of indices visited by forward iteration from begin() to end().
C1_SizeIsIterationCount == size_ = Len(iteration(Self))

\* C1 witness: two elements are visited with a free slot between them
C1_Witness ==
  /\ size_ = 2
  /\ iteration(Self) = << 0, 2 >>
  /\ last.op = "erase"
  /\ failure = "none"

\* C2: an insert that grows the storage leaves every element inserted before
\* and not erased used, with the same value at the same index, and the slots
\* that are free after the growth are at indices >= the old capacity.
C2_IndexStableUnderGrowth ==
  [][ (last'.op \in Ins /\ last'.grew /\ failure' = "none") =>
        /\ \A i \in alive :
             /\ i < capacity_'
             /\ is_used(Self', i)
             /\ all_items'[i] = all_items[i]
        /\ \A i \in slots(Self') : ~is_used(Self', i) => i >= capacity_
        /\ capacity_' > capacity_ ]_vars

\* C2 witness: a growth has happened with three elements already stored
C2_Witness ==
  /\ last.op \in Ins
  /\ last.grew
  /\ last.oldcapacity = 3
  /\ last.ret = 3
  /\ alive = {0, 1, 2, 3}
  /\ all_items[0].val = "a" /\ all_items[1].val = "b" /\ all_items[2].val = "c"

\* C3: erase(i) on a used slot immediately followed by insert or emplace returns
\* index i, stores the new value at i and leaves every other used slot as it was.
C3_LifoReuse ==
  [][ (last.op = "erase" /\ failure = "none" /\ last'.op \in Ins) =>
        /\ failure' = "none"
        /\ last'.ret = last.x
        /\ all_items'[last.x] = last'.t
        /\ \A i \in alive : is_used(Self', i) /\ all_items'[i] = all_items[i] ]_vars

\* C3 witness: insert a, insert b, erase(0), insert c gives (0 = c, 1 = b)
C3_Witness ==
  /\ last.op = "insert"
  /\ last.after_erase = 0
  /\ last.ret = 0
  /\ size_ = 2
  /\ iteration(Self) = << 0, 1 >>
  /\ all_items[0].val = "c"
  /\ all_items[1].val = "b"

\* the indices 0, 1, ..., n-1 in that order
upto(n) == [i \in 1 .. n |-> i - 1]

\* C4 as stated: k inserts with no erase into a container that was empty,
\* whether newly constructed, cleared or emptied by erase, return 0 .. k-1 in
\* that order, and forward iteration visits 0 .. k-1.
C4_AnyEmptyContainer ==
  (fill.n >= 1 /\ last.op \in Ins /\ failure = "none") =>
     /\ last.ret = fill.n - 1
     /\ iteration(Self) = upto(fill.n)

\* C4: k inserts with no erase into a newly constructed or cleared container
\* return 0 .. k-1 in that order, and forward iteration visits 0 .. k-1.
C4_FreshOrCleared ==
  (fill.n >= 1 /\ fill.from \in {"fresh", "cleared"}
     /\ last.op \in Ins /\ failure = "none") =>
     /\ last.ret = fill.n - 1
     /\ iteration(Self) = upto(fill.n)

\* C4 witness: three inserts into a cleared container, in one block of three
C4_Witness ==
  /\ fill.from = "cleared"
  /\ fill.n = 3
  /\ first_block_size = 3
  /\ last.op \in Ins
  /\ last.ret = 2

\* C5: no index returned by insert or emplace is the default-constructed
\* Index, the slot numbered bottom is never a live slot, and is_valid() of the
\* default-constructed Index is false.
C5_BottomNeverLive ==
  /\ (last.op \in Ins /\ failure = "none") => last.ret # default_Index
  /\ default_Index \notin alive
  /\ ~is_valid(default_Index)

\* C6: a slot is tagged FREE iff it is reached from free_list by the next
\* links, and tagged USED iff it holds a value constructed and not erased.
C6_TagMatchesMembership ==
  \A i \in slots(Self) :
     /\ type(Self, i) = FREE <=> i \in free_chain(Self, free_list, {})
     /\ type(Self, i) = USED <=> i \in alive

\* C6 witness: a used slot and two free slots chained against index order
C6_Witness ==
  /\ capacity_ = 3
  /\ alive = {1}
  /\ free_list = 0
  /\ get_val(Self, 0) = 2
  /\ get_val(Self, 2) = bottom

\* C7: size() is the number of slots tagged USED, capacity() is the number of
\* allocated slots, and 0 <= size() <= capacity().
C7_SizeAndCapacity ==
  /\ size_ = Cardinality({i \in slots(Self) : is_used(Self, i)})
  /\ capacity_ = Cardinality(DOMAIN all_items)
  /\ DOMAIN all_items = slots(Self)
  /\ 0 <= size_
  /\ size_ <= capacity_

\* C7 witness: some slots used and some free, after an erase
C7_Witness ==
  /\ capacity_ = 4
  /\ size_ = 2
  /\ last.op = "erase"
  /\ failure = "none"

\* C8: erase(i) on a used slot decreases size by one, makes i free and the head
\* of the free list with the previous head as its next link, and leaves
\* capacity, block_size and every other slot unchanged.
C8_EraseFrame ==
  [][ (last'.op = "erase" /\ failure' = "none") =>
        /\ size_' = size_ - 1
        /\ type(Self', last'.x) = FREE
        /\ free_list' = last'.x
        /\ get_val(Self', last'.x) = free_list
        /\ capacity_' = capacity_
        /\ block_size' = block_size
        /\ \A i \in slots(Self) \ {last'.x} : all_items'[i] = all_items[i] ]_vars

\* C8 witness: an erase that pushed its slot in front of another free slot
C8_Witness ==
  /\ last.op = "erase"
  /\ failure = "none"
  /\ free_list = last.x
  /\ get_val(Self, last.x) # bottom
  /\ size_ >= 1

\* C9: erase(x) on an index that is not a used slot is stopped by the
\* assertion before anything changes.
C9_BadEraseStopped ==
  [][ (last'.op = "erase" /\ ~(in_range(Self, last'.x) /\ is_used(Self, last'.x))) =>
        /\ failure' = "assertion"
        /\ UNCHANGED << capacity_, size_, block_size, free_list, all_items, alive >> ]_vars

\* C9 witness: a second erase of the same slot has been stopped
C9_Witness ==
  /\ failure = "assertion"
  /\ last.op = "erase"
  /\ in_range(Self, last.x)
  /\ type(Self, last.x) = FREE
  /\ size_ >= 1

\* C10: after clear() the container is in the state of a newly constructed one.
C10_ClearGivesFresh ==
  last.op = "clear" => (Self = fresh /\ alive = {} /\ failure = "none")

\* C10 witness: clear() released a storage of four slots
C10_Witness ==
  /\ last.op = "clear"
  /\ last.oldcapacity = 4
  /\ Self = fresh

\* C11 as stated: clear() on a container with empty() true leaves size,
\* capacity, free_list and block_size as they were.
C11_ClearOnAnyEmpty ==
  [][ (last'.op = "clear" /\ empty(Self)) =>
        UNCHANGED << size_, capacity_, free_list, block_size >> ]_vars

\* C11: clear() on a newly constructed or already cleared container leaves
\* size, capacity, free_list, block_size and the storage as they were.
C11_ClearOnFreshOrCleared ==
  [][ (last'.op = "clear" /\ fill.n = 0 /\ fill.from \in {"fresh", "cleared"}) =>
        UNCHANGED << size_, capacity_, free_list, block_size, all_items >> ]_vars

\* C11 witness: clear() has been called on a cleared container that had been filled
C11_Witness ==
  /\ last.op = "clear"
  /\ last.oldcapacity = 0
  /\ fill.from = "cleared"
  /\ Self = fresh


\* ---------------------------------------------------------------- C12
\* the iterator handed to the last owns() call points into this container
\* at a used slot
at_used_slot(cit) ==
  /\ cit.m_ptr_to_cc = "this"
  /\ in_range(Self, cit.m_index)
  /\ is_used(Self, cit.m_index)

\* C12 as stated: owns(it) returns true if and only if it is an iterator of
\* this container whose index is that of a used slot, and false for every
\* other iterator.
C12_OwnsIffUsedSlot ==
  query.op = "owns" =>
    /\ query.result = "true" <=> at_used_slot(query.before)
    /\ query.result = "false" <=> ~at_used_slot(query.before)

\* C12 amended: owns(it) returns true if and only if it is an iterator of this
\* container that equals end() or is at a used slot; it returns false for an
\* iterator of this container at a free slot and for an iterator of another
\* container at a slot of that container.
C12_OwnsUsedSlotOrEnd ==
  query.op = "owns" =>
    /\ query.result = "true" <=>
         \/ at_used_slot(query.before)
         \/ query.before = [m_ptr_to_cc |-> "this", m_index |-> end(Self)]
    /\ query.result = "false" <=>
         \/ /\ query.before.m_ptr_to_cc = "this"
            /\ in_range(Self, query.before.m_index)
            /\ ~is_used(Self, query.before.m_index)
         \/ /\ query.before.m_ptr_to_cc = "other"
            /\ in_range(other, query.before.m_index)

\* owns(end()) returned true on a container that holds an element and a free slot
C12_Witness ==
  /\ query.op = "owns"
  /\ query.before = [m_ptr_to_cc |-> "this", m_index |-> end(Self)]
  /\ query.result = "true"
  /\ size_ > 0
  /\ size_ < capacity_


\* ---------------------------------------------------------------- C13
\* C13: after reserve(n) returns the capacity is at least n, and no used slot
\* has changed.
C13_ReserveEnsuresCapacity ==
  query.op = "reserve" =>
    /\ capacity_ >= query.n
    /\ capacity_ >= query.capacity_before


\* ---------------------------------------------------------------- C14
\* the used indices of the container above, and below, index i
used_above(i) == { j \in (i + 1) .. (capacity_ - 1) : is_used(Self, j) }

used_below(i) == { j \in 0 .. (i - 1) : j < capacity_ /\ is_used(Self, j) }

least(S) == CHOOSE j \in S : \A k \in S : j <= k

greatest(S) == CHOOSE j \in S : \A k \in S : k <= j

\* C14: operator++ on an iterator at index i < capacity moves it to the
\* smallest used index above i, or to capacity (end()) when there is none; it
\* never stops on a free slot; on an iterator equal to end() the assertion
\* stops the program and the iterator is not moved.
C14_IncrementToNextUsed ==
  query.op = "increment" /\ query.before.m_ptr_to_cc = "this" =>
    IF query.before.m_index < capacity_
    THEN /\ query.result = "ok"
         /\ failure = "none"
         /\ iter.m_ptr_to_cc = "this"
         /\ iter.m_index = IF used_above(query.before.m_index) = {}
                           THEN capacity_
                           ELSE least(used_above(query.before.m_index))
         /\ iter.m_index = end(Self) \/ is_used(Self, iter.m_index)
    ELSE /\ query.result = "Incrementing end() ?"
         /\ failure = "assertion"
         /\ iter = query.before

\* ++ has skipped a free slot and stopped on a used one
C14_Witness ==
  /\ query.op = "increment"
  /\ query.result = "ok"
  /\ iter.m_index > query.before.m_index + 1
  /\ iter.m_index < capacity_
  /\ is_used(Self, iter.m_index)


\* ---------------------------------------------------------------- C15
\* C15: -- on an iterator equal to begin() is stopped by the assertion
\* "Decrementing begin() ?" of decrement(), whatever the index of begin(), and
\* the iterator is not moved below the first used slot.
C15_DecrementBeginStopped ==
  /\ query.op = "decrement"
  /\ query.before = [m_ptr_to_cc |-> "this", m_index |-> begin(Self)]
  => /\ query.result = "Decrementing begin() ?"
     /\ iter = query.before


\* ---------------------------------------------------------------- C16
\* an iterator of the container at a used slot, or equal to end()
at_used_or_end(cit) ==
  at_used_slot(cit) \/ cit = [m_ptr_to_cc |-> "this", m_index |-> end(Self)]

\* C16: -- mirrors ++. After ++ on an iterator at a used slot, -- leads back
\* to it; after -- on an iterator other than begin() that is at a used slot or
\* equal to end(), the iterator is at the greatest used index below and ++
\* leads back to where it was.
C16_DecrementMirrorsIncrement ==
  /\ query.op = "increment" /\ at_used_slot(query.before)
     => /\ query.result = "ok"
        /\ decrement(Self, iter.m_index) =
             [m_index |-> query.before.m_index, asserted |-> FALSE]
  /\ /\ query.op = "decrement"
     /\ at_used_or_end(query.before)
     /\ query.before.m_index # begin(Self)
     => /\ query.result = "ok"
        /\ failure = "none"
        /\ iter.m_index = greatest(used_below(query.before.m_index))
        /\ increment(Self, iter.m_index) = query.before.m_index

\* -- from a used slot has skipped a free slot and stopped on a used one
C16_Witness ==
  /\ query.op = "decrement"
  /\ query.result = "ok"
  /\ at_used_slot(query.before)
  /\ iter.m_index + 1 < query.before.m_index
  /\ is_used(Self, iter.m_index)


\* ---------------------------------------------------------------- C17
\* the values met by for (it = begin(); it != end(); ++it)
values(cc) ==
  [i \in 1 .. Len(iteration(cc)) |-> cc.all_items[iteration(cc)[i]].val]

\* C17: after copy construction and after copy assignment, forward iteration
\* over the copy yields the same sequence of values as forward iteration over
\* the source, and the copy has the size of the source.
C17_CopyPreservesOrder ==
  query.op \in {"copy constructor", "operator="} =>
    /\ values(other) = values(query.source)
    /\ other.size_ = query.source.size_
    /\ Len(iteration(other)) = query.source.size_

\* the source of the copy has a free slot between two used ones, holding
\* different values
C17_Witness ==
  /\ query.op \in {"copy constructor", "operator="}
  /\ query.source.size_ >= 2
  /\ iteration(query.source) # iteration(other)
  /\ values(other)[1] # values(other)[2]
  /\ \E i \in 1 .. Len(iteration(query.source)) - 1 :
       iteration(query.source)[i] + 1 < iteration(query.source)[i + 1]


\* ---------------------------------------------------------------- C18
\* a vertex marked in vertex_is_constrained_map, or, when relax_constraints
\* is false, a vertex incident to a constrained edge or to a border edge
held_in_place(v) ==
  \/ v \in np.vertex_is_constrained
  \/ ~np.relax_constraints /\ border_halfedges(v) # {}

\* C18: no step of tangential_relaxation changes the position of a vertex
\* marked as constrained, nor, when relax_constraints is false, of a vertex
\* incident to a constrained edge or a border edge; no step changes the mesh
\* connectivity.
C18_ConstrainedVerticesStay ==
  [][ /\ mesh' = mesh
      /\ \A v \in Vertices : held_in_place(v) => vpm'[v] = vpm[v]
    ]_vars

\* a call has returned after moving a vertex, on a mesh with a constrained
\* vertex and a vertex on a border or constrained edge, both in the range and
\* both neighbours of other vertices
C18_Witness ==
  /\ pc = "done"
  /\ nit >= 1
  /\ \E w \in Vertices : vpm[w] # 0
  /\ \E v \in np.vertex_is_constrained \cap np.vertices :
       /\ halfedges_around_target(v) # {}
       /\ vpm[v] = 0
  /\ ~np.relax_constraints
  /\ \E x \in np.vertices \ np.vertex_is_constrained :
       /\ border_halfedges(x) # {}
       /\ vpm[x] = 0


\* ---------------------------------------------------------------- C19
\* C19: insert and emplace call allocate_new_block, which adds block_size to
\* the capacity and applies the growth policy to block_size, if and only if
\* free_list is bottom when they are called; otherwise they leave capacity and
\* block_size unchanged; erase never changes capacity or block_size.
C19_GrowthOnlyOnEmptyFreeList ==
  [][ /\ last'.op \in Ins =>
           /\ last'.grew <=> free_list = bottom
           /\ capacity_' # capacity_ <=> free_list = bottom
           /\ IF free_list = bottom
              THEN /\ capacity_' = capacity_ + block_size
                   /\ block_size' =
                        increase_size([Self EXCEPT !.capacity_ = capacity_']).block_size
              ELSE /\ capacity_' = capacity_
                   /\ block_size' = block_size
      /\ last'.op = "erase" =>
           /\ capacity_' = capacity_
           /\ block_size' = block_size
    ]_vars

\* an insert that found a free slot in a container that had grown twice,
\* under the policy that changes block_size at each growth
C19_Witness ==
  /\ last.op \in Ins
  /\ ~last.grew
  /\ failure = "none"
  /\ Increment_policy = "Multiply_by_two_policy_for_cc_with_size"
  /\ capacity_ > first_block_size
  /\ block_size # first_block_size
  /\ last.oldcapacity = capacity_


\* ---------------------------------------------------------------- C20
\* the free list read from slot x: the indices met by following the next
\* links up to bottom (at most n of them)
RECURSIVE free_list_from(_, _, _)
free_list_from(cc, x, n) ==
  IF x = bottom \/ n = 0 \/ ~in_range(cc, x)
  THEN << >>
  ELSE << x >> \o free_list_from(cc, get_val(cc, x), n - 1)

\* the indices from, from+1, ..., to-1 in that order
ascending(from, to) == [i \in 1 .. (to - from) |-> from + i - 1]

\* C20: a growth from capacity c to capacity c' leaves the free list reading
\* c, c+1, ..., c'-1 and then bottom; the insertion that grew returns c and,
\* with no erase in between, the insertions that follow return c+1, ..., c'-1
\* in that order, each leaving the rest of that list.
C20_NewSlotsAscending ==
  /\ (failure = "none" /\ free_list = bottom
        /\ capacity_ + block_size <= MaxCapacity) =>
       LET grown == allocate_new_block(Self)
       IN /\ grown.capacity_ = capacity_ + block_size
          /\ free_list_from(grown, grown.free_list, grown.capacity_ + 1) =
               ascending(capacity_, grown.capacity_)
  /\ (last.op \in Ins /\ failure = "none" /\ last.since_growth # NoIndex) =>
       /\ last.ret = last.grown_from + last.since_growth
       /\ last.ret < capacity_
       /\ free_list_from(Self, free_list, capacity_ + 1) =
            ascending(last.ret + 1, capacity_)

\* the second insertion after a growth from a capacity above 0 that added
\* two slots, in a container that has seen an erase
C20_Witness ==
  /\ last.op \in Ins
  /\ failure = "none"
  /\ last.since_growth = 1
  /\ last.grown_from > 0
  /\ capacity_ = last.grown_from + 2
  /\ fill.n < 0


\* ---------------------------------------------------------------- C21
\* the capacity after the n-th growth of a container constructed with
\* first_block_size k
capacity_after(n) ==
  IF n = 0 THEN 0
  ELSE IF Increment_policy = "Multiply_by_two_policy_for_cc_with_size"
       THEN first_block_size * 2^(n - 1)
       ELSE first_block_size * n

\* C21: each growth adds block_size to the capacity and lets the policy set
\* block_size for the next growth; from a fresh container the capacity after
\* the n-th growth is k * 2^(n-1) under Multiply_by_two_policy_for_cc_with_size
\* and k * n under Constant_size_policy_for_cc_with_size, and every growth
\* increases the capacity.
C21_CapacityAfterGrowth ==
  [][ (last'.op \in Ins /\ last'.grew) =>
        /\ last'.growths = last.growths + 1
        /\ capacity_ = capacity_after(last.growths)
        /\ capacity_' = capacity_ + block_size
        /\ capacity_' > capacity_
        /\ capacity_' = capacity_after(last'.growths)
        /\ block_size' =
             IF Increment_policy = "Multiply_by_two_policy_for_cc_with_size"
             THEN capacity_' ELSE block_size
    ]_vars

\* the third growth under the doubling policy
C21_Witness ==
  /\ last.op \in Ins
  /\ last.grew
  /\ failure = "none"
  /\ last.growths = 3
  /\ Increment_policy = "Multiply_by_two_policy_for_cc_with_size"
  /\ capacity_ = 4 * first_block_size


\* ---------------------------------------------------------------- C22
\* C22: when an insert grows the storage, an iterator that was equal to end()
\* keeps its index, the old capacity, is no longer equal to end() and refers
\* to the element just inserted; an iterator that referred to a used slot
\* still refers to the same value at the same index.
C22_EndInvalidatedByGrowth ==
  [][ (last'.op \in Ins /\ last'.grew /\ capacity_' # capacity_
         /\ failure' = "none") =>
        /\ iter' = iter
        /\ iter = [m_ptr_to_cc |-> "this", m_index |-> end(Self)] =>
             /\ iter' # [m_ptr_to_cc |-> "this", m_index |-> end(Self')]
             /\ iter'.m_index = capacity_
             /\ iter'.m_index = last'.ret
             /\ is_used(Self', iter'.m_index)
             /\ all_items'[iter'.m_index] = last'.t
        /\ \A i \in slots(Self) :
             is_used(Self, i) =>
               /\ is_used(Self', i)
               /\ all_items'[i] = all_items[i]
        /\ at_used_slot(iter) =>
             /\ is_used(Self', iter'.m_index)
             /\ all_items'[iter'.m_index] = all_items[iter.m_index]
    ]_vars

\* an iterator equal to end() of a container that held elements now refers to
\* the element inserted by a growing insert, below the new end()
C22_Witness ==
  /\ last.op \in Ins
  /\ last.grew
  /\ failure = "none"
  /\ last.oldcapacity > 0
  /\ iter = [m_ptr_to_cc |-> "this", m_index |-> last.oldcapacity]
  /\ iter.m_index = last.ret
  /\ iter.m_index + 1 < end(Self)
  /\ query = no_query


\* ---------------------------------------------------------------- C23
\* the fractions of the move at which the loop calls check_normals, in order,
\* when the first "inverted" calls return false
RECURSIVE tested(_, _)
tested(frac, inverted) ==
  IF 100 * frac > 3 * Unit
  THEN << frac >> \o (IF inverted > 0
                      THEN tested(frac \div 2, inverted - 1) ELSE << >>)
  ELSE << >>

\* the number of times the loop halves frac
RECURSIVE halvings(_, _)
halvings(frac, inverted) ==
  IF 100 * frac > 3 * Unit /\ inverted > 0
  THEN 1 + halvings(frac \div 2, inverted - 1)
  ELSE 0

\* C23: the move-shortening loop ends after at most six halvings, check_normals
\* having been called on at most five shortened moves; the vertex is then
\* either at the last position tested, for which check_normals returned true,
\* or back at the position it had before the move.
C23_ShorteningEndsTestedOrCancelled ==
  performed # no_move =>
    LET calls == tested(Unit, performed.inverted)
        accepted == Len(calls) > performed.inverted
        position == vpm[performed.first]
    IN /\ halvings(Unit, performed.inverted) <= 6
       /\ Len(calls) <= 1 + 5
       /\ \/ position = performed.initial_pos
          \/ /\ accepted
             /\ position = performed.initial_pos
                             + (calls[Len(calls)] * performed.move) \div Unit

\* every attempt has been rejected and the move has been cancelled
C23_Witness ==
  /\ performed # no_move
  /\ performed.inverted >= 6
  /\ Len(tested(Unit, performed.inverted)) = 6
  /\ halvings(Unit, performed.inverted) = 6
  /\ performed.move # 0
  /\ vpm[performed.first] = performed.initial_pos


\* ---------------------------------------------------------------- C24
\* C24: the free list is an acyclic chain from free_list to bottom; every node
\* is an index below capacity, no slot is on it twice and its length is
\* capacity - size; free_list is bottom exactly when size equals capacity, so
\* a growth finds every slot used.
C24_FreeListChain ==
  LET chain == free_list_from(Self, free_list, capacity_ + 1)
      final == IF chain = << >> THEN free_list
               ELSE get_val(Self, chain[Len(chain)])
  IN /\ final = bottom
     /\ \A i \in 1 .. Len(chain) : chain[i] < capacity_
     /\ \A i, j \in 1 .. Len(chain) : chain[i] = chain[j] => i = j
     /\ Len(chain) = capacity_ - size_
     /\ free_list = bottom <=> size_ = capacity_
     /\ (last.op \in Ins /\ last.grew /\ failure = "none") =>
          /\ size_ = last.oldcapacity + 1
          /\ Len(chain) = capacity_ - last.oldcapacity - 1

\* a free list of two slots chained against the index order, after erases
C24_Witness ==
  /\ failure = "none"
  /\ last.op = "erase"
  /\ capacity_ = 4
  /\ size_ = 2
  /\ free_list_from(Self, free_list, capacity_ + 1) = << 1, 3 >>


\* ---------------------------------------------------------------- C25
\* C25: after insert(t) or emplace(args) has returned index i, is_used(i)
\* holds and slot i is visited by iteration, whatever the tag word of the
\* value constructed.
C25_InsertedSlotIsUsed ==
  (last.op \in Ins /\ failure = "none") =>
     /\ is_used(Self, last.ret)
     /\ \E k \in 1 .. Len(iteration(Self)) : iteration(Self)[k] = last.ret


\* ---------------------------------------------------------------- C26
\* C26: every value constructed by insert or emplace is destroyed exactly
\* once, by erase, by clear or by the move of a growth; no free slot is
\* destroyed and no value is left undestroyed, so the values constructed and
\* not destroyed are those of the used slots and their number is size().
C26_ConstructedAreDestroyedOnce ==
  /\ ~objects.leaked
  /\ ~objects.destroyed_free
  /\ objects.live = used_slots(Self)
  /\ Cardinality(objects.live) = size_

\* clear() has destroyed the values of a container that had grown to three
\* slots or more
C26_Witness ==
  /\ last.op = "clear"
  /\ last.oldcapacity >= 3
  /\ last.growths = 0
  /\ objects = no_objects
  /\ fill.from = "cleared"


\* ---------------------------------------------------------------- C27
\* C27: after move construction or move assignment from a container c, the
\* target holds the former elements of c at their former indices and c is in
\* the state of a newly constructed container: size 0, capacity 0, free_list
\* bottom, no storage.
C27_MoveLeavesSourceEmpty ==
  query.op \in {"move constructor", "move assignment"} =>
    /\ other = query.source
    /\ Self = fresh


\* ---------------------------------------------------------------- C28
\* C28: insert(c[i]) for an element of the same container stores a copy of
\* the value of slot i in the new slot and leaves slot i as it was, also when
\* the insert grows the storage.
C28_InsertOfOwnElement ==
  (last.op = "insert" /\ last.x # NoIndex /\ failure = "none") =>
     /\ all_items[last.ret] = last.t
     /\ all_items[last.x] = last.t
     /\ last.ret # last.x


\* ---------------------------------------------------------------- C29
\* C29: a container built by the copy constructor or by copy assignment from
\* another container holds the j-th element of the source, in iteration order
\* and counting from 0, at index j: its used slots are 0 .. size-1, and an
\* element has kept its index exactly when no slot below it was free in the
\* source.
C29_CopyRenumbers ==
  query.op \in {"copy constructor", "operator="} =>
    LET source == query.source
        order == iteration(source)
    IN /\ iteration(other) = upto(source.size_)
       /\ Len(order) = source.size_
       /\ \A j \in 1 .. Len(order) :
            /\ is_used(other, j - 1)
            /\ other.all_items[j - 1] = source.all_items[order[j]]
            /\ order[j] = j - 1 <=>
                 \A i \in 0 .. (order[j] - 1) : is_used(source, i)
       /\ \A i \in 0 .. (other.capacity_ - 1) :
            is_used(other, i) <=> i < other.size_

\* the source has a free slot below its two elements: both have moved down
C29_Witness ==
  /\ query.op = "copy constructor"
  /\ iteration(query.source) = << 1, 2 >>
  /\ iteration(other) = << 0, 1 >>
  /\ other.all_items[0].val # other.all_items[1].val


\* ---------------------------------------------------------------- C30
\* the sequence s holds every face of the range once, and no face is before
\* one whose score the comparator puts before its own
arranged_by_score(s) ==
  LET n == tmesh.faces
      position(f) == CHOOSE i \in positions(n) : m_face_range[i] = f
  IN /\ DOMAIN s = positions(n)
     /\ \A f \in { m_face_range[i] : i \in positions(n) } :
          \E i \in positions(n) : s[i] = f
     /\ \A i, j \in positions(n) :
          i < j => ~Compare_scores(tmesh.score, position(s[j]), position(s[i]))

\* C30: sort() is idempotent: with the mesh, the neighbor query and the
\* scores unchanged, ordered() after a second call of sort() is the sequence
\* obtained after the first call, a permutation of the input faces arranged
\* by the score comparator.
C30_SortIdempotent ==
  Len(sorted) >= 2 =>
    /\ sorted[2] = sorted[1]
    /\ arranged_by_score(sorted[1])
    /\ arranged_by_score(sorted[2])
====
